---- MODULE Spec2Model ----
(***************************************************************************)
(* PythonExecutor (src/src/executor/python-executor.ts): one invocation of *)
(* execute, the child process it spawns and the event-loop callbacks that  *)
(* race over it (data events, the spawn-option timeout, the explicit       *)
(* timer, the grace timer, 'exit', 'close', 'error').                      *)
(*                                                                         *)
(* Strings.  Source text is a record [text, pad]: `text` is a tuple of     *)
(* one-character strings, followed by `pad` filler characters "x" (no      *)
(* denylist entry contains "x", so the filler adds length and no match).   *)
(* Captured output is a tuple of pieces, one per data event, each piece    *)
(* the length (UTF-16 units) of the decoded chunk.                         *)
(***************************************************************************)
EXTENDS Integers, Sequences, FiniteSets, TLC

\* ------------------------------------------------------------------ bounds
\* Largest number of chunks the child writes to its two pipes together.
MaxChunks == 3
\* Longest source text of the validation sweep (before its filler).
MaxText == 4
MaxInFlight == 2
MaxNames == 3
MaxRequests == 2
MaxRegisters == 3

\* --------------------------------------------------------- program constants
maxTimeout == 30000
MaxCodeLength == 100000
OutputLimit == 1000000
GraceMs == 1000

\* DEFAULT_CONFIG.blockedCommands, in list order.
blockedCommands ==
  << <<"r","m"," ","-","r","f">>,
     <<"d","d">>,
     <<"m","k","f","s">>,
     <<"f","o","r","m","a","t">>,
     <<":","(",")","{",":","|",":","&","}",";",":">>,
     <<"s","u","d","o">>,
     <<"s","u">> >>

\* ------------------------------------------------------------------ messages
\* An Error's message: a fixed text and, for the security violation, the
\* denylist entry appended to it.
Msg(t, a) == [text |-> t, arg |-> a]
NoError == Msg("<absent>", <<>>)
SecurityMsg(b) == Msg("Security violation: Blocked command detected: ", b)
TooLargeMsg == Msg("Code too large: Maximum 100KB allowed", <<>>)
LimitMsg == Msg("Execution timeout or output limit exceeded", <<>>)
MkdtempErr == Msg("ENOSPC: no space left on device, mkdtemp", <<>>)
WriteFileErr == Msg("ENOSPC: no space left on device, write", <<>>)
RmErr == Msg("EBUSY: resource busy or locked, rm", <<>>)
SpawnRangeErr == Msg("The value of \"timeout\" is out of range.", <<>>)
SpawnSyncErr == Msg("spawn ENOMEM", <<>>)
SpawnAsyncErr == Msg("spawn python3 ENOENT", <<>>)
KillErr == Msg("kill EPERM", <<>>)
IncludesTypeErr == Msg("TypeError: code.includes is not a function", <<>>)
CodeParamErr == Msg("Missing or invalid \"code\" parameter", <<>>)
LanguageErr(name) == Msg("Unsupported language: ", name)

\* ------------------------------------------------------------------- strings
CodeLength(code) == Len(code.text) + code.pad

\* String.prototype.startsWith in place of includes.
Includes_AtStartOnly(code, b) ==
  Len(b) <= Len(code.text) /\ SubSeq(code.text, 1, Len(b)) = b

\* String.prototype.includes: `b` occurs as a contiguous run of code.text.
Includes(code, b) ==
  \E i \in 1..(Len(code.text) - Len(b) + 1) :
     SubSeq(code.text, i, i + Len(b) - 1) = b

RECURSIVE SumSeq(_)
SumSeq(s) == IF s = <<>> THEN 0 ELSE Head(s) + SumSeq(Tail(s))

\* .length of an accumulated output string.
StrLen(s) == SumSeq(s)

\* data.toString(): a chunk of `bytes` bytes decodes to `units` UTF-16 units.
DataToString(chunk) == chunk.units

\* ---------------------------------------------------------------- validation
\* validateCode without its length check.
validateCode_NoLengthCheck(code) ==
  LET hits == { i \in 1..Len(blockedCommands) : Includes(code, blockedCommands[i]) }
  IN  IF code.kind # "string" THEN IncludesTypeErr
      ELSE IF hits # {}
        THEN SecurityMsg(blockedCommands[CHOOSE i \in hits : \A j \in hits : i <= j])
        ELSE NoError

\* validateCode: the first denylist entry found throws; then the length check.
\* The value is the thrown message, or NoError when the code passes.  A code
\* that is no string has no includes method: the first call throws.
validateCode(code) ==
  LET hits == { i \in 1..Len(blockedCommands) : Includes(code, blockedCommands[i]) }
  IN  IF code.kind # "string" THEN IncludesTypeErr
      ELSE IF hits # {}
        THEN SecurityMsg(blockedCommands[CHOOSE i \in hits : \A j \in hits : i <= j])
        ELSE IF CodeLength(code) > MaxCodeLength THEN TooLargeMsg ELSE NoError

\* ------------------------------------------------------------------- results
\* The catch block of execute.
CatchResult(msg) ==
  [kind |-> "return",
   success |-> FALSE, stdout |-> <<>>,
   stderr |-> [data |-> <<>>, tail |-> msg],
   exitCode |-> -1, error |-> msg]

\* The 'close' handler's two results and the 'error' handler's result.
KilledResult(so, se) ==
  [kind |-> "return",
   success |-> FALSE, stdout |-> so,
   stderr |-> [data |-> se, tail |-> LimitMsg],
   exitCode |-> -1, error |-> LimitMsg]

\* The close handler reporting success for every exit that carries a code.
ExitResult_AnyCodeSucceeds(so, se, status) ==
  [kind |-> "return",
   success |-> ~status.null,
   stdout |-> so,
   stderr |-> [data |-> se, tail |-> NoError],
   exitCode |-> IF status.null \/ status.code = 0 THEN 0 ELSE status.code,
   error |-> NoError]

\* status.null: the close event carries code null (ended by a signal).
ExitResult(so, se, status) ==
  [kind |-> "return",
   success |-> (~status.null /\ status.code = 0),
   stdout |-> so,
   stderr |-> [data |-> se, tail |-> NoError],
   exitCode |-> IF status.null \/ status.code = 0 THEN 0 ELSE status.code,
   error |-> NoError]

ErrorResult(so, se, msg) ==
  [kind |-> "return",
   success |-> FALSE, stdout |-> so,
   stderr |-> [data |-> se, tail |-> msg],
   exitCode |-> -1, error |-> msg]

NoResult ==
  [kind |-> "none", success |-> FALSE, stdout |-> <<>>,
   stderr |-> [data |-> <<>>, tail |-> NoError], exitCode |-> 0, error |-> NoError]

\* A return that spreads the result and leaves executionTime out.
Stamp_WithoutTime(r, t) ==
  [kind |-> r.kind, success |-> r.success, stdout |-> r.stdout, stderr |-> r.stderr,
   exitCode |-> r.exitCode, error |-> r.error]

\* { ...result, executionTime: Date.now() - startTime }
Stamp(r, t) ==
  [kind |-> r.kind, success |-> r.success, stdout |-> r.stdout, stderr |-> r.stderr,
   exitCode |-> r.exitCode, error |-> r.error, executionTime |-> t]

\* The effective timeout without its clamp.
EffectiveTimeout_NoClamp(t) == IF t.has /\ t.ms # 0 THEN t.ms ELSE maxTimeout

\* The effective timeout: Math.min(request.timeout || maxTimeout, maxTimeout).
\* request.timeout is [has, ms]; absent and 0 are falsy.
Min(a, b) == IF a <= b THEN a ELSE b
EffectiveTimeout(t) ==
  Min(IF t.has /\ t.ms # 0 THEN t.ms ELSE maxTimeout, maxTimeout)

\* -------------------------------------------------------------------- inputs
Absent == [has |-> FALSE, ms |-> 0]
Given(ms) == [has |-> TRUE, ms |-> ms]
RequestTimeouts == { Absent, Given(-1), Given(200), Given(30001) }

\* A string of source text; `kind` tells a string from the other values a
\* tool call can carry as its code argument.
Code(text, pad) == [kind |-> "string", text |-> text, pad |-> pad]
MissingCode == [kind |-> "undefined", text |-> <<>>, pad |-> 0]
NumberCode == [kind |-> "number", text |-> <<>>, pad |-> 0]
Codes ==
  { Code(<<"p">>, 99999),                \* exactly 100,000 characters
    Code(<<"p">>, 100000),               \* 100,001 characters
    Code(<<"s","u">>, 0),
    Code(<<"'","s","u","d","o","'">>, 0),
    Code(<<"d","d">>, 100000) }

Requests == [code : Codes, timeout : RequestTimeouts]

\* The sweep of direct calls followed up to the spawn: every text of at most
\* MaxText characters over a small alphabet, bare or filled up to about the
\* size limit, and a range of requested timeouts.
Alphabet == {"s", "u", "d", "o", "S"}
Texts == UNION { [1..n -> Alphabet] : n \in 0..MaxText }
SweepCodes == { Code(t, p) : t \in Texts, p \in {0, MaxCodeLength - 2} }
SweepTimeouts ==
  { Absent, Given(0), Given(-1), Given(1), Given(200), Given(29999), Given(30000),
    Given(30001), Given(60000) }
SweepRequests ==
  { [code |-> c, timeout |-> Absent] : c \in SweepCodes }
    \cup { [code |-> Code(<<"p">>, 0), timeout |-> t] : t \in SweepTimeouts }

\* What a child writes in one write, as one data event delivers it.
Chunks == { [bytes |-> 1, units |-> 1], [bytes |-> 1000000, units |-> 500000] }

\* How the child ends when left alone, and whether SIGTERM ends it.
Scripts == [ending : {"exits", "never"}, ignoresTerm : BOOLEAN]
ExitStatuses ==
  { [null |-> FALSE, code |-> 0], [null |-> FALSE, code |-> 7], [null |-> TRUE, code |-> 0] }

\* --------------------------------------------------------------------- state
\* ------------------------------------------------------------------ registry
\* String.prototype.includes on plain texts.
StrIncludes(text, b) ==
  \E i \in 1..(Len(text) - Len(b) + 1) : SubSeq(text, i, i + Len(b) - 1) = b

\* String.prototype.toLowerCase, on the letters A to Z.
UpperCase == <<"A", "B", "C", "D", "E", "F", "G", "H", "I", "J", "K", "L", "M", "N", "O", "P", "Q", "R", "S", "T", "U", "V", "W", "X", "Y", "Z">>
LowerCase == <<"a", "b", "c", "d", "e", "f", "g", "h", "i", "j", "k", "l", "m", "n", "o", "p", "q", "r", "s", "t", "u", "v", "w", "x", "y", "z">>
LowerChar(c) ==
  IF \E i \in 1..Len(UpperCase) : UpperCase[i] = c
    THEN LowerCase[CHOOSE i \in 1..Len(UpperCase) : UpperCase[i] = c]
    ELSE c
ToLowerCase(text) == [i \in 1..Len(text) |-> LowerChar(text[i])]

\* !context || context.trim() === ''
WhiteSpace == {" ", "\t", "\n"}
Blank(context) == \A i \in 1..Len(context) : context[i] \in WhiteSpace

\* The tools of tools-definitions.ts, in the order they are listed.
TOOL_DEFINITIONS ==
  <<
  [name |-> "analyze_nginx_logs", priority |-> 10,
   keywords |->
     << <<"n", "g", "i", "n", "x">>,
        <<"w", "e", "b", " ", "s", "e", "r", "v", "e", "r">>,
        <<"a", "c", "c", "e", "s", "s", " ", "l", "o", "g">>,
        <<"h", "t", "t", "p">>,
        <<"w", "e", "b", " ", "t", "r", "a", "f", "f", "i", "c">> >>],
  [name |-> "analyze_docker_logs", priority |-> 9,
   keywords |->
     << <<"d", "o", "c", "k", "e", "r">>,
        <<"c", "o", "n", "t", "a", "i", "n", "e", "r">>,
        <<"c", "o", "n", "t", "a", "i", "n", "e", "r", "i", "z", "e", "d">>,
        <<"d", "o", "c", "k", "e", "r", " ", "l", "o", "g">> >>],
  [name |-> "validate_kubernetes_yaml", priority |-> 8,
   keywords |->
     << <<"k", "u", "b", "e", "r", "n", "e", "t", "e", "s">>,
        <<"k", "8", "s">>,
        <<"k", "u", "b", "e", "c", "t", "l">>,
        <<"y", "a", "m", "l">>,
        <<"d", "e", "p", "l", "o", "y", "m", "e", "n", "t">>,
        <<"p", "o", "d">>,
        <<"s", "e", "r", "v", "i", "c", "e">> >>],
  [name |-> "check_system_health", priority |-> 7,
   keywords |->
     << <<"s", "y", "s", "t", "e", "m", " ", "h", "e", "a", "l", "t", "h">>,
        <<"d", "i", "s", "k", " ", "s", "p", "a", "c", "e">>,
        <<"m", "e", "m", "o", "r", "y">>,
        <<"c", "p", "u">>,
        <<"m", "o", "n", "i", "t", "o", "r", "i", "n", "g">>,
        <<"h", "e", "a", "l", "t", "h", " ", "c", "h", "e", "c", "k">> >>],
  [name |-> "execute_code", priority |-> 5,
   keywords |->
     << <<"p", "y", "t", "h", "o", "n">>,
        <<"c", "o", "d", "e">>,
        <<"s", "c", "r", "i", "p", "t">>,
        <<"e", "x", "e", "c", "u", "t", "e">>,
        <<"r", "u", "n">> >>],
  [name |-> "validate_config_file", priority |-> 6,
   keywords |->
     << <<"c", "o", "n", "f", "i", "g">>,
        <<"c", "o", "n", "f", "i", "g", "u", "r", "a", "t", "i", "o", "n">>,
        <<"j", "s", "o", "n">>,
        <<"y", "a", "m", "l">>,
        <<"t", "o", "m", "l">>,
        <<"v", "a", "l", "i", "d", "a", "t", "e">> >>],
  [name |-> "analyze_log_patterns", priority |-> 7,
   keywords |->
     << <<"l", "o", "g">>,
        <<"a", "p", "p", "l", "i", "c", "a", "t", "i", "o", "n", " ", "l", "o", "g">>,
        <<"e", "r", "r", "o", "r", " ", "l", "o", "g">>,
        <<"s", "y", "s", "l", "o", "g">>,
        <<"p", "a", "t", "t", "e", "r", "n">> >>]
  >>

\* A registry that keeps every registration, also of a name it has.
register_Appends(registered, metadata) == Append(registered, metadata)

\* register: this.tools.set(name, metadata).  A Map keeps the place of a key
\* it has and puts a new key last.
register(registered, metadata) ==
  IF \E i \in 1..Len(registered) : registered[i].name = metadata.name
    THEN [i \in 1..Len(registered) |->
            IF registered[i].name = metadata.name THEN metadata ELSE registered[i]]
    ELSE Append(registered, metadata)

\* The keywords of a registered tool that the context holds.
Matching(m, context) ==
  { i \in 1..Len(m.keywords) :
      StrIncludes(ToLowerCase(context), ToLowerCase(m.keywords[i])) }

\* score += metadata.priority, once for every matching keyword
Score(m, context) == m.priority * Cardinality(Matching(m, context))

\* Array.prototype.sort((a, b) => b.score - a.score): stable, highest first.
InsertByScore(sorted, x) ==
  LET n == Cardinality({ i \in 1..Len(sorted) : sorted[i].score >= x.score })
  IN  SubSeq(sorted, 1, n) \o << x >> \o SubSeq(sorted, n + 1, Len(sorted))

RECURSIVE SortByScore(_)
SortByScore(seq) ==
  IF seq = << >> THEN << >>
  ELSE InsertByScore(SortByScore(SubSeq(seq, 1, Len(seq) - 1)), seq[Len(seq)])

ToolNames(seq) == [i \in 1..Len(seq) |-> seq[i].name]

\* getAllTools: every registered tool, by priority.
getAllTools(registered) ==
  ToolNames(SortByScore([i \in 1..Len(registered) |->
                           [name |-> registered[i].name,
                            score |-> registered[i].priority]]))

\* A fallback that offers nothing.
getFallbackTools_None(registered) == << >>

\* getFallbackTools: the registered tools named execute_code.
getFallbackTools(registered) ==
  ToolNames(SelectSeq(registered, LAMBDA m : m.name = "execute_code"))

\* discoverTools(context) over the registered tools.
discoverTools(registered, context) ==
  IF Blank(context) THEN getAllTools(registered)
  ELSE LET scored == [i \in 1..Len(registered) |->
                        [name |-> registered[i].name,
                         score |-> Score(registered[i], context)]]
           discovered == ToolNames(SortByScore(SelectSeq(scored, LAMBDA t : t.score > 0)))
       IN  IF discovered = << >> THEN getFallbackTools(registered) ELSE discovered

\* What a user asks of the client of the intelligent server.
Queries ==
  { <<>>,
    <<" ", " ">>,
    <<"n", "g", "i", "n", "x">>,
    <<"N", "G", "I", "N", "X", " ", "a", "c", "c", "e", "s", "s", " ", "l", "o", "g">>,
    <<"d", "o", "c", "k", "e", "r", " ", "l", "o", "g">>,
    <<"y", "a", "m", "l">>,
    <<"r", "u", "n", " ", "k", "8", "s">>,
    <<"z", "z", "z">> }

VARIABLES
  pc,          \* where execute is: idle, mkdtemp, writeFile, awaiting, rm, done
  request,     \* the ExecutionRequest
  dirExists,   \* the temporary directory of this invocation exists
  dirsMade,    \* directories created by this invocation
  spawns,      \* children spawned by this invocation
  script,      \* the child's behaviour
  procState,   \* none, spawnFailed, running, zombie (ended, not yet observed),
               \* exited ('exit' emitted, handle released), closed ('close' emitted)
  exitStatus,  \* the status the child ended with
  signalled,   \* the strongest signal delivered to the running child
  kills,       \* the calls of proc.kill made so far: signal and time
  procKilled,  \* proc.killed
  killed,      \* the local flag of executeProcess
  stdout,      \* the stdout accumulator
  stderr,      \* the stderr accumulator
  pipeOut,     \* chunks written to stdout and not yet delivered
  pipeErr,     \* chunks written to stderr and not yet delivered
  wroteOut,    \* every chunk the child wrote to stdout, in order
  wroteErr,    \* every chunk the child wrote to stderr, in order
  spawnTimer,  \* the timer of spawn's timeout option
  timer,       \* the explicit timer of executeProcess
  graceTimer,  \* the nested 1000 ms timer
  graceAt,     \* when the nested timer is due
  elapsed,     \* milliseconds since startTime
  timedOut,    \* the timeout elapsed while the child was still running
  srv,         \* the tool call being served, or the direct call of execute
  reply,       \* the payload the server answered the tool call with
  execs,       \* invocations of execute side by side: where each is, and its tmpDir
  tmpdir,      \* the mcp-exec- directories that exist under os.tmpdir()
  trespass,    \* writes and removals that hit the directory of another invocation
  tools,       \* IntelligentToolRegistry.tools, in insertion order
  lastUserQuery, \* IntelligentCodeExecutionServer.lastUserQuery
  userQuery,   \* what the user last asked of the client, if anything
  listed,      \* the answer to the last list-tools request, and the query it came after
  served,      \* the requests the intelligent server has handled
  host,        \* the server process: up, closing (a signal handler runs), exited
  procResult,  \* the value executeProcess resolved with
  result       \* what execute returned

vars ==
  << pc, request, dirExists, dirsMade, spawns, script, procState, exitStatus,
     signalled, kills, procKilled, killed, stdout, stderr, pipeOut, pipeErr, wroteOut,
     wroteErr, spawnTimer, timer, graceTimer, graceAt, elapsed, timedOut, srv, reply,
     execs, tmpdir, trespass, tools, lastUserQuery, userQuery, listed, served, host,
     procResult, result >>

procVars == << script, procState, exitStatus, signalled, kills, procKilled, killed >>
ioVars == << stdout, stderr, pipeOut, pipeErr, wroteOut, wroteErr >>
timerVars == << spawnTimer, timer, graceTimer, graceAt >>
fsVars == << dirExists, dirsMade >>
clockVars == << elapsed, timedOut >>
concVars == << execs, tmpdir, trespass >>
regVars == << tools, lastUserQuery, userQuery, listed, served >>
execVars ==
  << pc, request, srv, reply, dirExists, dirsMade, spawns, script, procState, exitStatus,
     signalled, kills, procKilled, killed, stdout, stderr, pipeOut, pipeErr, wroteOut, wroteErr,
     spawnTimer, timer, graceTimer, graceAt, elapsed, timedOut, procResult, result >>
outerVars == << srv, reply, concVars, regVars, host >>

timeout == EffectiveTimeout(request.timeout)

\* The payloads a server answers a tool call with: the JSON text of the
\* result's fields, or of { success: false, error } with isError set.
NoReply == [kind |-> "none", isError |-> FALSE, success |-> FALSE, error |-> NoError]
ResultPayload(r) ==
  [kind |-> "payload", isError |-> FALSE, success |-> r.success, error |-> r.error]
ErrorPayload(msg) ==
  [kind |-> "payload", isError |-> TRUE, success |-> FALSE, error |-> msg]

\* Invocations of execute side by side, and the names mkdtemp can give.
Invocations == 1..MaxInFlight
Names == 1..MaxNames
NoDir == 0
NoExec == [pc |-> "idle", tmpDir |-> NoDir]

\* No server, and so no registry, has been constructed.
NoTools == << >>

\* No query yet, and no answer to list-tools yet.
NoQuery == [asked |-> FALSE, text |-> << >>]
Query(text) == [asked |-> TRUE, text |-> text]
NotListed == [answered |-> FALSE, tools |-> << >>, after |-> NoQuery]
Listed(names, query) == [answered |-> TRUE, tools |-> names, after |-> query]

\* execute called directly, by an in-process caller.
NoLanguage == [has |-> FALSE, name |-> ""]
Language(name) == [has |-> TRUE, name |-> name]
DirectCall ==
  [via |-> "direct", code |-> MissingCode, language |-> Language("python"),
   timeout |-> Absent]

\* The executor and its surroundings before execute is called.
Fresh ==
  /\ dirExists = FALSE /\ dirsMade = 0 /\ spawns = 0
  /\ script = [ending |-> "never", ignoresTerm |-> FALSE]
  /\ procState = "none"
  /\ exitStatus = [null |-> FALSE, code |-> 0]
  /\ signalled = "none" /\ kills = {}
  /\ procKilled = FALSE /\ killed = FALSE
  /\ stdout = <<>> /\ stderr = <<>>
  /\ pipeOut = <<>> /\ pipeErr = <<>>
  /\ wroteOut = <<>> /\ wroteErr = <<>>
  /\ spawnTimer = "none" /\ timer = "none" /\ graceTimer = "none" /\ graceAt = 0
  /\ elapsed = 0
  /\ timedOut = FALSE
  /\ reply = NoReply
  /\ execs = [i \in Invocations |-> NoExec] /\ tmpdir = {} /\ trespass = {}
  /\ lastUserQuery = << >>
  /\ userQuery = NoQuery /\ listed = NotListed /\ served = << >>
  /\ host = "up"
  /\ procResult = NoResult
  /\ result = Stamp(NoResult, 0)

Init ==
  /\ pc = "idle"
  /\ request \in Requests
  /\ srv = DirectCall
  /\ tools = NoTools
  /\ Fresh

\* ---------------------------------------------------------------- event loop
\* A timer whose time has come runs before any other callback.
SpawnTimerDue == spawnTimer = "armed" /\ elapsed >= timeout
TimerDue == timer = "armed" /\ elapsed >= timeout
GraceTimerDue == graceTimer = "armed" /\ elapsed >= graceAt
NoTimerDue == ~SpawnTimerDue /\ ~TimerDue /\ ~GraceTimerDue

Deadlines ==
  (IF spawnTimer = "armed" \/ timer = "armed" THEN {timeout} ELSE {})
    \cup (IF graceTimer = "armed" THEN {graceAt} ELSE {})

\* Time passes up to the next deadline.
AdvanceTime ==
  /\ NoTimerDue
  /\ procState # "spawnFailed"
  /\ Deadlines # {}
  /\ elapsed' = CHOOSE d \in Deadlines : \A e \in Deadlines : d <= e
  /\ timedOut' = (timedOut \/ (procState = "running" /\ elapsed < timeout
                                 /\ elapsed' >= timeout))
  /\ UNCHANGED << pc, request, outerVars, dirExists, dirsMade, spawns, procVars, ioVars,
                  timerVars, procResult, result >>

\* A nested timer with no delay.
GraceDeadline_AtOnce(now) == now

\* setTimeout(..., 1000) inside the timer callback
GraceDeadline(now) == now + GraceMs

\* clearTimeout
Cleared(t) == IF t = "armed" THEN "cleared" ELSE t

\* ------------------------------------------------------------------- execute
\* A catch block that rethrows instead of returning.
ExecuteCatch_Rethrows(msg) ==
  [kind |-> "throw", success |-> FALSE, stdout |-> <<>>,
   stderr |-> [data |-> <<>>, tail |-> msg], exitCode |-> -1, error |-> msg,
   executionTime |-> elapsed]

\* What the catch block of execute completes the call with.
ExecuteCatch(msg) == Stamp(CatchResult(msg), elapsed)

\* execute, up to its first await: the timeout, validateCode, then mkdtemp is
\* started; a rejection goes to the catch block.
Execute ==
  /\ pc = "idle"
  /\ LET thrown == validateCode(request.code)
     IN  IF thrown # NoError
           THEN /\ pc' = "done"
                /\ result' = ExecuteCatch(thrown)
           ELSE /\ pc' = "mkdtemp"
                /\ UNCHANGED result
  /\ UNCHANGED << request, outerVars, fsVars, spawns, procVars, ioVars, timerVars, clockVars,
                  procResult >>

\* fs.mkdtemp settles; on success writeFile is started.
Mkdtemp ==
  /\ pc = "mkdtemp"
  /\ \/ /\ dirExists' = TRUE
        /\ dirsMade' = dirsMade + 1
        /\ pc' = "writeFile"
        /\ UNCHANGED result
     \/ /\ pc' = "done"
        /\ result' = ExecuteCatch(MkdtempErr)
        /\ UNCHANGED fsVars
  /\ UNCHANGED << request, outerVars, spawns, procVars, ioVars, timerVars, clockVars, procResult >>

\* fs.writeFile rejects: the catch block returns; nothing removes the directory.
WriteFileFails ==
  /\ pc = "writeFile"
  /\ pc' = "done"
  /\ result' = ExecuteCatch(WriteFileErr)
  /\ UNCHANGED << request, outerVars, fsVars, spawns, procVars, ioVars, timerVars, clockVars,
                  procResult >>

\* spawn validates its timeout option: an unsigned integer, or it throws.
SpawnTimeoutValid(t) == t >= 0

\* fs.writeFile resolves and executeProcess runs its executor: spawn throws
\* (the promise rejects and the catch block returns), or the child starts or
\* fails to start, and the handlers and both timers are set.
ExecuteProcess ==
  /\ pc = "writeFile"
  /\ IF ~SpawnTimeoutValid(timeout)
       THEN /\ pc' = "done"
            /\ result' = ExecuteCatch(SpawnRangeErr)
            /\ UNCHANGED << spawns, procVars, timerVars >>
       ELSE \/ /\ pc' = "done"
               /\ result' = ExecuteCatch(SpawnSyncErr)
               /\ UNCHANGED << spawns, procVars, timerVars >>
            \/ /\ pc' = "awaiting"
               /\ \/ /\ procState' = "running"
                     /\ spawns' = spawns + 1
                     /\ script' \in Scripts
                  \/ /\ procState' = "spawnFailed"
                     /\ UNCHANGED << spawns, script >>
               /\ spawnTimer' = IF timeout > 0 THEN "armed" ELSE "none"
               /\ timer' = "armed"
               /\ UNCHANGED << exitStatus, signalled, kills, procKilled, killed,
                               graceTimer, graceAt, result >>
  /\ UNCHANGED << request, outerVars, fsVars, ioVars, clockVars, procResult >>

\* A promise that every call of resolve settles anew.
Resolve_LastWins(r) ==
  /\ pc' = (IF pc = "awaiting" THEN "rm" ELSE pc)
  /\ procResult' = r

\* resolve(r): the first call settles the promise and execute goes on to
\* fs.rm; later calls do nothing.
Resolve(r) ==
  IF pc = "awaiting"
    THEN pc' = "rm" /\ procResult' = r
    ELSE UNCHANGED << pc, procResult >>

\* fs.rm settles: execute returns the stamped result, or fs.rm rejected and
\* the catch block returns.
Rm ==
  /\ pc = "rm"
  /\ NoTimerDue
  /\ pc' = "done"
  /\ \/ /\ dirExists' = FALSE
        /\ result' = Stamp(procResult, elapsed)
     \/ /\ result' = ExecuteCatch(RmErr)
        /\ UNCHANGED dirExists
  /\ UNCHANGED << request, outerVars, dirsMade, spawns, procVars, ioVars, timerVars, clockVars,
                  procResult >>

\* ----------------------------------------------------------------- the child
Written == Len(wroteOut) + Len(wroteErr)

ProcWriteStdout ==
  /\ procState = "running"
  /\ Written < MaxChunks
  /\ \E c \in Chunks :
       /\ pipeOut' = Append(pipeOut, c)
       /\ wroteOut' = Append(wroteOut, c)
  /\ UNCHANGED << pc, request, outerVars, fsVars, spawns, procVars, stdout, stderr, pipeErr,
                  wroteErr, timerVars, clockVars, procResult, result >>

ProcWriteStderr ==
  /\ procState = "running"
  /\ Written < MaxChunks
  /\ \E c \in Chunks :
       /\ pipeErr' = Append(pipeErr, c)
       /\ wroteErr' = Append(wroteErr, c)
  /\ UNCHANGED << pc, request, outerVars, fsVars, spawns, procVars, stdout, stderr, pipeOut,
                  wroteOut, timerVars, clockVars, procResult, result >>

\* The child ends on its own: an exit status, or a signal it raised itself.
ProcExit ==
  /\ procState = "running"
  /\ script.ending = "exits"
  /\ procState' = "zombie"
  /\ exitStatus' \in ExitStatuses
  /\ UNCHANGED << pc, request, outerVars, fsVars, spawns, script, signalled, kills, procKilled, killed,
                  ioVars, timerVars, clockVars, procResult, result >>

\* A delivered signal ends the child: SIGKILL always, SIGTERM unless ignored.
ProcSignalDeath ==
  /\ procState = "running"
  /\ \/ signalled = "SIGKILL"
     \/ signalled = "SIGTERM" /\ ~script.ignoresTerm
  /\ procState' = "zombie"
  /\ exitStatus' = [null |-> TRUE, code |-> 0]
  /\ UNCHANGED << pc, request, outerVars, fsVars, spawns, script, signalled, kills, procKilled, killed,
                  ioVars, timerVars, clockVars, procResult, result >>

\* ------------------------------------------------------------ ChildProcess.kill
\* What proc.kill can come to: with the handle released it returns false;
\* with the handle held the signal is sent, or the system call fails (EPERM)
\* and 'error' is emitted synchronously.
KillOutcomes ==
  IF procState \in {"running", "zombie"} THEN {"sent", "eperm"} ELSE {"noop"}

Stronger(a, b) == IF a = "SIGKILL" \/ b = "SIGKILL" THEN "SIGKILL" ELSE b

\* proc.killed and the signal delivered after proc.kill(sig) came to `ko`
\* ("none": kill was not called).
KillSets(sig, ko) ==
  /\ procKilled' = (procKilled \/ ko = "sent")
  /\ signalled' = IF ko = "sent" /\ procState = "running"
                    THEN Stronger(signalled, sig) ELSE signalled
  /\ kills' = IF ko = "none" THEN kills ELSE kills \cup {[sig |-> sig, at |-> elapsed]}

\* The 'error' handler: clearTimeout(timer), resolve with the error result.
\* `t` is the state of the explicit timer when the handler runs.
OnError(so, se, msg, t) ==
  /\ timer' = Cleared(t)
  /\ Resolve(ErrorResult(so, se, msg))

\* After a kill that came to `ko`: the 'error' handler ran, or nothing did.
KillEmits(ko, so, se, t) ==
  IF ko = "eperm"
    THEN OnError(so, se, KillErr, t)
    ELSE timer' = t /\ UNCHANGED << pc, procResult >>

\* ------------------------------------------------------------- data handlers
Streaming == procState \in {"running", "zombie", "exited"}

\* The accumulator has outgrown the limit.
OverLimit(s) == StrLen(s) > OutputLimit

\* proc.stdout.on('data'): append, then kill past the limit.
StdoutData ==
  /\ Streaming /\ NoTimerDue
  /\ pipeOut # <<>>
  /\ LET so == Append(stdout, DataToString(Head(pipeOut)))
     IN  /\ stdout' = so
         /\ pipeOut' = Tail(pipeOut)
         /\ killed' = (killed \/ OverLimit(so))
         /\ \E ko \in (IF OverLimit(so) THEN KillOutcomes ELSE {"none"}) :
              /\ KillSets("SIGTERM", ko)
              /\ KillEmits(ko, so, stderr, timer)
  /\ UNCHANGED << request, outerVars, fsVars, spawns, script, procState, exitStatus, stderr,
                  pipeErr, wroteOut, wroteErr, spawnTimer, graceTimer, graceAt,
                  clockVars, result >>

\* proc.stderr.on('data')
StderrData ==
  /\ Streaming /\ NoTimerDue
  /\ pipeErr # <<>>
  /\ LET se == Append(stderr, DataToString(Head(pipeErr)))
     IN  /\ stderr' = se
         /\ pipeErr' = Tail(pipeErr)
         /\ killed' = (killed \/ OverLimit(se))
         /\ \E ko \in (IF OverLimit(se) THEN KillOutcomes ELSE {"none"}) :
              /\ KillSets("SIGTERM", ko)
              /\ KillEmits(ko, stdout, se, timer)
  /\ UNCHANGED << request, outerVars, fsVars, spawns, script, procState, exitStatus, stdout,
                  pipeOut, wroteOut, wroteErr, spawnTimer, graceTimer, graceAt,
                  clockVars, result >>

\* -------------------------------------------------------------------- timers
\* The timer of spawn's timeout option: child.kill(killSignal).  It was set
\* before the explicit timer, with the same delay, so it runs first.
SpawnTimeout ==
  /\ SpawnTimerDue
  /\ spawnTimer' = "fired"
  /\ \E ko \in KillOutcomes :
       /\ KillSets("SIGTERM", ko)
       /\ KillEmits(ko, stdout, stderr, timer)
  /\ UNCHANGED << request, outerVars, fsVars, spawns, script, procState, exitStatus, killed,
                  ioVars, graceTimer, graceAt, clockVars, result >>

\* The explicit timer: unless proc.killed, SIGTERM, killed = true and the
\* nested timer is set.
Timer ==
  /\ TimerDue /\ ~SpawnTimerDue
  /\ IF ~procKilled
       THEN /\ \E ko \in KillOutcomes :
                 /\ KillSets("SIGTERM", ko)
                 /\ KillEmits(ko, stdout, stderr, "fired")
            /\ killed' = TRUE
            /\ graceTimer' = "armed"
            /\ graceAt' = GraceDeadline(elapsed)
       ELSE /\ timer' = "fired"
            /\ UNCHANGED << procKilled, signalled, kills, killed, graceTimer, graceAt, pc,
                            procResult >>
  /\ UNCHANGED << request, outerVars, fsVars, spawns, script, procState, exitStatus, ioVars,
                  spawnTimer, clockVars, result >>

\* The nested timer: unless proc.killed, SIGKILL.
GraceTimer ==
  /\ GraceTimerDue /\ ~SpawnTimerDue /\ ~TimerDue
  /\ graceTimer' = "fired"
  /\ IF ~procKilled
       THEN \E ko \in KillOutcomes :
              /\ KillSets("SIGKILL", ko)
              /\ KillEmits(ko, stdout, stderr, timer)
       ELSE UNCHANGED << procKilled, signalled, kills, timer, pc, procResult >>
  /\ UNCHANGED << request, outerVars, fsVars, spawns, script, procState, exitStatus, killed,
                  ioVars, spawnTimer, graceAt, clockVars, result >>

\* ------------------------------------------------------- 'exit', 'close', 'error'
\* The child's end is observed: the handle is released, 'exit' is emitted and
\* the listener spawn registered clears the timeout-option timer.
OnExit ==
  /\ procState = "zombie" /\ NoTimerDue
  /\ procState' = "exited"
  /\ spawnTimer' = Cleared(spawnTimer)
  /\ UNCHANGED << pc, request, outerVars, fsVars, spawns, script, exitStatus, signalled, kills,
                  procKilled, killed, ioVars, timer, graceTimer, graceAt, clockVars,
                  procResult, result >>

\* proc.on('close'): the child has ended and both streams have ended.
OnClose ==
  /\ procState = "exited" /\ NoTimerDue
  /\ pipeOut = <<>> /\ pipeErr = <<>>
  /\ procState' = "closed"
  /\ timer' = Cleared(timer)
  /\ Resolve(IF killed THEN KilledResult(stdout, stderr)
                       ELSE ExitResult(stdout, stderr, exitStatus))
  /\ UNCHANGED << request, outerVars, fsVars, spawns, script, exitStatus, signalled, kills, procKilled,
                  killed, ioVars, spawnTimer, graceTimer, graceAt, clockVars, result >>

\* The child could not be started: on the next tick the handle is released
\* and 'error' is emitted ('exit' is not); 'close' follows with the errno.
SpawnError ==
  /\ procState = "spawnFailed"
  /\ procState' = "exited"
  /\ exitStatus' = [null |-> FALSE, code |-> -2]
  /\ OnError(stdout, stderr, SpawnAsyncErr, timer)
  /\ UNCHANGED << request, outerVars, fsVars, spawns, script, signalled, kills, procKilled, killed,
                  ioVars, spawnTimer, graceTimer, graceAt, clockVars, result >>

\* ------------------------------------------------------------- specification
Next ==
  \/ Execute
  \/ Mkdtemp
  \/ WriteFileFails
  \/ ExecuteProcess
  \/ Rm
  \/ ProcWriteStdout
  \/ ProcWriteStderr
  \/ ProcExit
  \/ ProcSignalDeath
  \/ StdoutData
  \/ StderrData
  \/ AdvanceTime
  \/ SpawnTimeout
  \/ Timer
  \/ GraceTimer
  \/ OnExit
  \/ OnClose
  \/ SpawnError

Spec == Init /\ [][Next]_vars

\* Direct calls of execute over the sweep, followed up to the spawn.
StartInit ==
  /\ pc = "idle"
  /\ request \in SweepRequests
  /\ srv = DirectCall
  /\ tools = NoTools
  /\ Fresh

StartNext ==
  \/ Execute
  \/ Mkdtemp
  \/ WriteFileFails
  \/ ExecuteProcess

StartSpec == StartInit /\ [][StartNext]_vars

\* ------------------------------------------------------------------- servers
\* JavaScript truthiness of the arguments of a tool call.
Falsy(code) ==
  \/ code.kind = "undefined"
  \/ code.kind = "string" /\ CodeLength(code) = 0

\* args.timeout ? Math.min(args.timeout, 30000) : 30000
ServerTimeout(t) == IF t.has /\ t.ms # 0 THEN Min(t.ms, maxTimeout) ELSE maxTimeout

\* args.language || 'python'
LanguageOrDefault(l) == IF l.has /\ l.name # "" THEN l.name ELSE "python"

EmptyCode == Code(<<>>, 0)
ArgCodes == { MissingCode, NumberCode, EmptyCode, Code(<<"p">>, 0), Code(<<"s", "u">>, 0) }
ArgLanguages == { NoLanguage, Language(""), Language("python"), Language("bash") }
ArgTimeouts == { Absent, Given(0), Given(-1), Given(200), Given(30001) }

\* execute_code tool calls on either server, and direct calls of execute:
\* one argument varies at a time around print-like code, 'python', 200 ms.
Calls ==
  { [via |-> v, code |-> c, language |-> Language("python"), timeout |-> Given(200)] :
      v \in {"basic", "intelligent", "direct"}, c \in ArgCodes }
  \cup
  { [via |-> v, code |-> Code(<<"p">>, 0), language |-> l, timeout |-> Given(200)] :
      v \in {"basic", "intelligent"}, l \in ArgLanguages }
  \cup
  { [via |-> v, code |-> Code(<<"p">>, 0), language |-> Language("python"), timeout |-> t] :
      v \in {"basic", "intelligent", "direct"}, t \in ArgTimeouts }

NoRequest == [code |-> MissingCode, timeout |-> Absent]

\* CodeExecutionServer.handleExecuteCode, up to its await of execute.
BasicHandleExecuteCode ==
  /\ pc = "call" /\ srv.via = "basic"
  /\ IF Falsy(srv.code) \/ srv.code.kind # "string"
       THEN /\ pc' = "replied"
            /\ reply' = ErrorPayload(CodeParamErr)
            /\ UNCHANGED request
       ELSE IF LanguageOrDefault(srv.language) # "python"
         THEN /\ pc' = "replied"
              /\ reply' = ErrorPayload(LanguageErr(srv.language.name))
              /\ UNCHANGED request
         ELSE /\ pc' = "idle"
              /\ request' = [code |-> srv.code,
                             timeout |-> Given(ServerTimeout(srv.timeout))]
              /\ UNCHANGED reply
  /\ UNCHANGED << srv, concVars, regVars, host, fsVars, spawns, procVars, ioVars, timerVars, clockVars,
                  procResult, result >>

\* IntelligentCodeExecutionServer.handleExecuteCode and executePythonCode, up
\* to the await of execute.
IntelligentHandleExecuteCode ==
  /\ pc = "call" /\ srv.via = "intelligent"
  /\ pc' = "idle"
  /\ request' = [code |-> srv.code, timeout |-> Given(ServerTimeout(srv.timeout))]
  /\ UNCHANGED << srv, reply, concVars, regVars, host, fsVars, spawns, procVars, ioVars, timerVars, clockVars,
                  procResult, result >>

\* execute has settled: the handler answers with the result's fields, or its
\* catch block answers with the error.
ServerReply ==
  /\ pc = "done" /\ srv.via # "direct"
  /\ pc' = "replied"
  /\ reply' = IF result.kind = "throw" THEN ErrorPayload(result.error)
                                       ELSE ResultPayload(result)
  /\ UNCHANGED << request, srv, concVars, regVars, host, fsVars, spawns, procVars, ioVars, timerVars, clockVars,
                  procResult, result >>

\* Tool calls and direct calls, followed up to the spawn and the reply.
SrvInit ==
  /\ srv \in Calls
  /\ IF srv.via = "direct"
       THEN pc = "idle" /\ request = [code |-> srv.code, timeout |-> srv.timeout]
       ELSE pc = "call" /\ request = NoRequest
  /\ tools = TOOL_DEFINITIONS
  /\ Fresh

SrvNext ==
  \/ BasicHandleExecuteCode
  \/ IntelligentHandleExecuteCode
  \/ Execute
  \/ Mkdtemp
  \/ WriteFileFails
  \/ ExecuteProcess
  \/ ServerReply

SrvSpec == SrvInit /\ [][SrvNext]_vars

\* ------------------------------------------------ the templated tool handlers
\* Argument values of a tool call, as JavaScript values.
Undefined == [kind |-> "undefined", text |-> << >>]
Str(text) == [kind |-> "string", text |-> text]
Num(digits) == [kind |-> "number", text |-> digits]
Bool(word) == [kind |-> "boolean", text |-> word]

\* ToBoolean of a value, as `||` applies it.
Truthy(v) ==
  CASE v.kind = "undefined" -> FALSE
    [] v.kind = "string" -> v.text # << >>
    [] v.kind = "number" -> v.text # <<"0">>
    [] v.kind = "boolean" -> v.text = <<"t", "r", "u", "e">>

\* v || d
Or(v, d) == IF Truthy(v) THEN v ELSE d

\* The text a template literal puts in place of ${v}.
ToText(v) ==
  IF v.kind = "undefined" THEN <<"u", "n", "d", "e", "f", "i", "n", "e", "d">> ELSE v.text

\* The script of handleAnalyzeNginxLogs for its arguments.
NginxCode(args) ==
  << "\n", "i", "m", "p", "o", "r", "t", " ", "j", "s", "o", "n", "\n", "i",
     "m", "p", "o", "r", "t", " ", "r", "e", "\n", "f", "r", "o", "m", " ",
     "c", "o", "l", "l", "e", "c", "t", "i", "o", "n", "s", " ", "i", "m",
     "p", "o", "r", "t", " ", "C", "o", "u", "n", "t", "e", "r", "\n", "\n",
     "l", "o", "g", "_", "f", "i", "l", "e", " ", "=", " ", "\"" >>
    \o ToText(args.log_file_path)
    \o << "\"", "\n", "a", "n", "a", "l", "y", "s", "i", "s", "_", "t", "y", "p",
          "e", " ", "=", " ", "\"" >>
    \o ToText(Or(args.analysis_type, Str(<<"f", "u", "l", "l">>)))
    \o << "\"", "\n", "\n", "#", " ", "L", "o", "a", "d", " ", "p", "r", "e", "-",
          "b", "u", "i", "l", "t", " ", "a", "n", "a", "l", "y", "z", "e", "r",
          "\n", "w", "i", "t", "h", " ", "o", "p", "e", "n", "(", "'", "e", "x",
          "a", "m", "p", "l", "e", "s", "/", "a", "n", "a", "l", "y", "z", "e",
          "-", "l", "o", "g", "s", ".", "p", "y", "'", ",", " ", "'", "r", "'",
          ")", " ", "a", "s", " ", "f", ":", "\n", " ", " ", " ", " ", "e", "x",
          "e", "c", "(", "f", ".", "r", "e", "a", "d", "(", ")", ")", "\n", "\n",
          "r", "e", "s", "u", "l", "t", " ", "=", " ", "p", "a", "r", "s", "e",
          "_", "n", "g", "i", "n", "x", "_", "l", "o", "g", "(", "l", "o", "g",
          "_", "f", "i", "l", "e", ")", "\n", "p", "r", "i", "n", "t", "(", "j",
          "s", "o", "n", ".", "d", "u", "m", "p", "s", "(", "r", "e", "s", "u",
          "l", "t", ",", " ", "i", "n", "d", "e", "n", "t", "=", "2", ")", ")",
          "\n" >>

\* The script of handleAnalyzeDockerLogs for its arguments.
DockerCode(args) ==
  << "\n", "i", "m", "p", "o", "r", "t", " ", "j", "s", "o", "n", "\n", "\n",
     "#", " ", "D", "o", "c", "k", "e", "r", " ", "l", "o", "g", "s", " ",
     "a", "r", "e", " ", "t", "y", "p", "i", "c", "a", "l", "l", "y", " ",
     "i", "n", " ", "/", "v", "a", "r", "/", "l", "i", "b", "/", "d", "o",
     "c", "k", "e", "r", "/", "c", "o", "n", "t", "a", "i", "n", "e", "r",
     "s", "/", " ", "o", "r", " ", "p", "r", "o", "v", "i", "d", "e", "d",
     " ", "p", "a", "t", "h", "\n", "l", "o", "g", "_", "p", "a", "t", "h",
     " ", "=", " ", "\"" >>
    \o ToText(args.container_name_or_id)
    \o << "\"", "\n", "p", "r", "i", "n", "t", "(", "j", "s", "o", "n", ".", "d",
          "u", "m", "p", "s", "(", "{", "\n", " ", " ", " ", " ", "\"", "m", "e",
          "s", "s", "a", "g", "e", "\"", ":", " ", "\"", "D", "o", "c", "k", "e",
          "r", " ", "l", "o", "g", " ", "a", "n", "a", "l", "y", "s", "i", "s",
          "\"", ",", "\n", " ", " ", " ", " ", "\"", "c", "o", "n", "t", "a", "i",
          "n", "e", "r", "\"", ":", " ", "l", "o", "g", "_", "p", "a", "t", "h",
          ",", "\n", " ", " ", " ", " ", "\"", "n", "o", "t", "e", "\"", ":", " ",
          "\"", "A", "n", "a", "l", "y", "z", "e", " ", "d", "o", "c", "k", "e",
          "r", " ", "l", "o", "g", "s", " ", "h", "e", "r", "e", " ", "-", " ",
          "i", "m", "p", "l", "e", "m", "e", "n", "t", "a", "t", "i", "o", "n",
          " ", "s", "p", "e", "c", "i", "f", "i", "c", " ", "t", "o", " ", "e",
          "n", "v", "i", "r", "o", "n", "m", "e", "n", "t", "\"", "\n", "}", ")",
          ")", "\n" >>

\* The script of handleValidateK8sYaml for its arguments.
K8sCode(args) ==
  << "\n", "i", "m", "p", "o", "r", "t", " ", "j", "s", "o", "n", "\n", "i",
     "m", "p", "o", "r", "t", " ", "y", "a", "m", "l", "\n", "\n", "t", "r",
     "y", ":", "\n", " ", " ", " ", " ", "w", "i", "t", "h", " ", "o", "p",
     "e", "n", "(", "\"" >>
    \o ToText(args.yaml_file_path)
    \o << "\"", ",", " ", "'", "r", "'", ")", " ", "a", "s", " ", "f", ":", "\n",
          " ", " ", " ", " ", " ", " ", " ", " ", "d", "o", "c", "s", " ", "=",
          " ", "l", "i", "s", "t", "(", "y", "a", "m", "l", ".", "s", "a", "f",
          "e", "_", "l", "o", "a", "d", "_", "a", "l", "l", "(", "f", ")", ")",
          "\n", "\n", " ", " ", " ", " ", "r", "e", "s", "u", "l", "t", "s", " ",
          "=", " ", "{", "\n", " ", " ", " ", " ", " ", " ", " ", " ", "\"", "v",
          "a", "l", "i", "d", "\"", ":", " ", "T", "r", "u", "e", ",", "\n", " ",
          " ", " ", " ", " ", " ", " ", " ", "\"", "d", "o", "c", "u", "m", "e",
          "n", "t", "s", "\"", ":", " ", "l", "e", "n", "(", "d", "o", "c", "s",
          ")", ",", "\n", " ", " ", " ", " ", " ", " ", " ", " ", "\"", "r", "e",
          "s", "o", "u", "r", "c", "e", "s", "\"", ":", " ", "[", "d", "o", "c",
          ".", "g", "e", "t", "(", "'", "k", "i", "n", "d", "'", ",", " ", "'",
          "U", "n", "k", "n", "o", "w", "n", "'", ")", " ", "f", "o", "r", " ",
          "d", "o", "c", " ", "i", "n", " ", "d", "o", "c", "s", " ", "i", "f",
          " ", "d", "o", "c", "]", ",", "\n", " ", " ", " ", " ", " ", " ", " ",
          " ", "\"", "r", "e", "c", "o", "m", "m", "e", "n", "d", "a", "t", "i",
          "o", "n", "s", "\"", ":", " ", "[", "]", "\n", " ", " ", " ", " ", "}",
          "\n", "\n", " ", " ", " ", " ", "#", " ", "C", "h", "e", "c", "k", " ",
          "b", "e", "s", "t", " ", "p", "r", "a", "c", "t", "i", "c", "e", "s",
          "\n", " ", " ", " ", " ", "i", "f", " " >>
    \o ToText(Or(args.check_best_practices, Bool(<<"t", "r", "u", "e">>)))
    \o << ":", "\n", " ", " ", " ", " ", " ", " ", " ", " ", "f", "o", "r", " ",
          "d", "o", "c", " ", "i", "n", " ", "d", "o", "c", "s", ":", "\n", " ",
          " ", " ", " ", " ", " ", " ", " ", " ", " ", " ", " ", "i", "f", " ",
          "n", "o", "t", " ", "d", "o", "c", ":", "\n", " ", " ", " ", " ", " ",
          " ", " ", " ", " ", " ", " ", " ", " ", " ", " ", " ", "c", "o", "n",
          "t", "i", "n", "u", "e", "\n", " ", " ", " ", " ", " ", " ", " ", " ",
          " ", " ", " ", " ", "i", "f", " ", "'", "r", "e", "s", "o", "u", "r",
          "c", "e", "s", "'", " ", "n", "o", "t", " ", "i", "n", " ", "d", "o",
          "c", ".", "g", "e", "t", "(", "'", "s", "p", "e", "c", "'", ",", " ",
          "{", "}", ")", ".", "g", "e", "t", "(", "'", "t", "e", "m", "p", "l",
          "a", "t", "e", "'", ",", " ", "{", "}", ")", ".", "g", "e", "t", "(",
          "'", "s", "p", "e", "c", "'", ",", " ", "{", "}", ")", ".", "g", "e",
          "t", "(", "'", "c", "o", "n", "t", "a", "i", "n", "e", "r", "s", "'",
          ",", " ", "[", "{", "}", "]", ")", "[", "0", "]", ":", "\n", " ", " ",
          " ", " ", " ", " ", " ", " ", " ", " ", " ", " ", " ", " ", " ", " ",
          "r", "e", "s", "u", "l", "t", "s", "[", "\"", "r", "e", "c", "o", "m",
          "m", "e", "n", "d", "a", "t", "i", "o", "n", "s", "\"", "]", ".", "a",
          "p", "p", "e", "n", "d", "(", "\"", "C", "o", "n", "s", "i", "d", "e",
          "r", " ", "a", "d", "d", "i", "n", "g", " ", "r", "e", "s", "o", "u",
          "r", "c", "e", " ", "l", "i", "m", "i", "t", "s", "/", "r", "e", "q",
          "u", "e", "s", "t", "s", "\"", ")", "\n", "\n", " ", " ", " ", " ", "p",
          "r", "i", "n", "t", "(", "j", "s", "o", "n", ".", "d", "u", "m", "p",
          "s", "(", "r", "e", "s", "u", "l", "t", "s", ",", " ", "i", "n", "d",
          "e", "n", "t", "=", "2", ")", ")", "\n", "e", "x", "c", "e", "p", "t",
          " ", "E", "x", "c", "e", "p", "t", "i", "o", "n", " ", "a", "s", " ",
          "e", ":", "\n", " ", " ", " ", " ", "p", "r", "i", "n", "t", "(", "j",
          "s", "o", "n", ".", "d", "u", "m", "p", "s", "(", "{", "\"", "v", "a",
          "l", "i", "d", "\"", ":", " ", "F", "a", "l", "s", "e", ",", " ", "\"",
          "e", "r", "r", "o", "r", "\"", ":", " ", "s", "t", "r", "(", "e", ")",
          "}", ")", ")", "\n" >>

\* The script of handleSystemHealth for its arguments.
HealthCode(args) ==
  << "\n", "i", "m", "p", "o", "r", "t", " ", "j", "s", "o", "n", "\n", "i",
     "m", "p", "o", "r", "t", " ", "s", "h", "u", "t", "i", "l", "\n", "\n",
     "#", " ", "C", "h", "e", "c", "k", " ", "d", "i", "s", "k", " ", "s",
     "p", "a", "c", "e", "\n", "t", "o", "t", "a", "l", ",", " ", "u", "s",
     "e", "d", ",", " ", "f", "r", "e", "e", " ", "=", " ", "s", "h", "u",
     "t", "i", "l", ".", "d", "i", "s", "k", "_", "u", "s", "a", "g", "e",
     "(", "\"", "/", "\"", ")", "\n", "d", "i", "s", "k", "_", "p", "e", "r",
     "c", "e", "n", "t", " ", "=", " ", "(", "u", "s", "e", "d", " ", "/",
     " ", "t", "o", "t", "a", "l", ")", " ", "*", " ", "1", "0", "0", "\n",
     "\n", "r", "e", "s", "u", "l", "t", " ", "=", " ", "{", "\n", " ", " ",
     " ", " ", "\"", "d", "i", "s", "k", "\"", ":", " ", "{", "\n", " ", " ",
     " ", " ", " ", " ", " ", " ", "\"", "t", "o", "t", "a", "l", "_", "g",
     "b", "\"", ":", " ", "r", "o", "u", "n", "d", "(", "t", "o", "t", "a",
     "l", " ", "/", " ", "(", "1", "0", "2", "4", "*", "*", "3", ")", ",",
     " ", "2", ")", ",", "\n", " ", " ", " ", " ", " ", " ", " ", " ", "\"",
     "u", "s", "e", "d", "_", "g", "b", "\"", ":", " ", "r", "o", "u", "n",
     "d", "(", "u", "s", "e", "d", " ", "/", " ", "(", "1", "0", "2", "4",
     "*", "*", "3", ")", ",", " ", "2", ")", ",", "\n", " ", " ", " ", " ",
     " ", " ", " ", " ", "\"", "f", "r", "e", "e", "_", "g", "b", "\"", ":",
     " ", "r", "o", "u", "n", "d", "(", "f", "r", "e", "e", " ", "/", " ",
     "(", "1", "0", "2", "4", "*", "*", "3", ")", ",", " ", "2", ")", ",",
     "\n", " ", " ", " ", " ", " ", " ", " ", " ", "\"", "u", "s", "e", "d",
     "_", "p", "e", "r", "c", "e", "n", "t", "\"", ":", " ", "r", "o", "u",
     "n", "d", "(", "d", "i", "s", "k", "_", "p", "e", "r", "c", "e", "n",
     "t", ",", " ", "2", ")", ",", "\n", " ", " ", " ", " ", " ", " ", " ",
     " ", "\"", "a", "l", "e", "r", "t", "\"", ":", " ", "d", "i", "s", "k",
     "_", "p", "e", "r", "c", "e", "n", "t", " ", ">", " " >>
    \o ToText(Or(args.threshold_disk_percent, Num(<<"8", "0">>)))
    \o << "\n", " ", " ", " ", " ", "}", ",", "\n", " ", " ", " ", " ", "\"", "o",
          "v", "e", "r", "a", "l", "l", "_", "h", "e", "a", "l", "t", "h", "\"",
          ":", " ", "\"", "O", "K", "\"", " ", "i", "f", " ", "d", "i", "s", "k",
          "_", "p", "e", "r", "c", "e", "n", "t", " ", "<", " " >>
    \o ToText(Or(args.threshold_disk_percent, Num(<<"8", "0">>)))
    \o << " ", "e", "l", "s", "e", " ", "\"", "W", "A", "R", "N", "I", "N", "G",
          "\"", "\n", "}", "\n", "\n", "p", "r", "i", "n", "t", "(", "j", "s",
          "o", "n", ".", "d", "u", "m", "p", "s", "(", "r", "e", "s", "u", "l",
          "t", ",", " ", "i", "n", "d", "e", "n", "t", "=", "2", ")", ")", "\n" >>

\* The script of handleValidateConfig for its arguments.
ConfigCode(args) ==
  << "\n", "i", "m", "p", "o", "r", "t", " ", "j", "s", "o", "n", "\n", "i",
     "m", "p", "o", "r", "t", " ", "y", "a", "m", "l", "\n", "\n", "t", "r",
     "y", ":", "\n", " ", " ", " ", " ", "w", "i", "t", "h", " ", "o", "p",
     "e", "n", "(", "\"" >>
    \o ToText(args.file_path)
    \o << "\"", ",", " ", "'", "r", "'", ")", " ", "a", "s", " ", "f", ":", "\n",
          " ", " ", " ", " ", " ", " ", " ", " ", "c", "o", "n", "t", "e", "n",
          "t", " ", "=", " ", "f", ".", "r", "e", "a", "d", "(", ")", "\n", "\n",
          " ", " ", " ", " ", "f", "i", "l", "e", "_", "t", "y", "p", "e", " ",
          "=", " ", "\"" >>
    \o ToText(args.file_type)
    \o << "\"", "\n", " ", " ", " ", " ", "i", "f", " ", "f", "i", "l", "e", "_",
          "t", "y", "p", "e", " ", "=", "=", " ", "\"", "a", "u", "t", "o", "\"",
          ":", "\n", " ", " ", " ", " ", " ", " ", " ", " ", "f", "i", "l", "e",
          "_", "t", "y", "p", "e", " ", "=", " ", "\"" >>
    \o ToText(args.file_path)
    \o << "\"", ".", "s", "p", "l", "i", "t", "(", "'", ".", "'", ")", "[", "-",
          "1", "]", "\n", "\n", " ", " ", " ", " ", "i", "f", " ", "f", "i", "l",
          "e", "_", "t", "y", "p", "e", " ", "i", "n", " ", "[", "'", "y", "a",
          "m", "l", "'", ",", " ", "'", "y", "m", "l", "'", "]", ":", "\n", " ",
          " ", " ", " ", " ", " ", " ", " ", "d", "a", "t", "a", " ", "=", " ",
          "y", "a", "m", "l", ".", "s", "a", "f", "e", "_", "l", "o", "a", "d",
          "(", "c", "o", "n", "t", "e", "n", "t", ")", "\n", " ", " ", " ", " ",
          "e", "l", "i", "f", " ", "f", "i", "l", "e", "_", "t", "y", "p", "e",
          " ", "=", "=", " ", "'", "j", "s", "o", "n", "'", ":", "\n", " ", " ",
          " ", " ", " ", " ", " ", " ", "d", "a", "t", "a", " ", "=", " ", "j",
          "s", "o", "n", ".", "l", "o", "a", "d", "s", "(", "c", "o", "n", "t",
          "e", "n", "t", ")", "\n", "\n", " ", " ", " ", " ", "r", "e", "s", "u",
          "l", "t", " ", "=", " ", "{", "\n", " ", " ", " ", " ", " ", " ", " ",
          " ", "\"", "v", "a", "l", "i", "d", "\"", ":", " ", "T", "r", "u", "e",
          ",", "\n", " ", " ", " ", " ", " ", " ", " ", " ", "\"", "f", "i", "l",
          "e", "_", "t", "y", "p", "e", "\"", ":", " ", "f", "i", "l", "e", "_",
          "t", "y", "p", "e", ",", "\n", " ", " ", " ", " ", " ", " ", " ", " ",
          "\"", "k", "e", "y", "s", "\"", ":", " ", "l", "i", "s", "t", "(", "d",
          "a", "t", "a", ".", "k", "e", "y", "s", "(", ")", ")", " ", "i", "f",
          " ", "i", "s", "i", "n", "s", "t", "a", "n", "c", "e", "(", "d", "a",
          "t", "a", ",", " ", "d", "i", "c", "t", ")", " ", "e", "l", "s", "e",
          " ", "N", "o", "n", "e", "\n", " ", " ", " ", " ", "}", "\n", " ", " ",
          " ", " ", "p", "r", "i", "n", "t", "(", "j", "s", "o", "n", ".", "d",
          "u", "m", "p", "s", "(", "r", "e", "s", "u", "l", "t", ",", " ", "i",
          "n", "d", "e", "n", "t", "=", "2", ")", ")", "\n", "e", "x", "c", "e",
          "p", "t", " ", "E", "x", "c", "e", "p", "t", "i", "o", "n", " ", "a",
          "s", " ", "e", ":", "\n", " ", " ", " ", " ", "p", "r", "i", "n", "t",
          "(", "j", "s", "o", "n", ".", "d", "u", "m", "p", "s", "(", "{", "\"",
          "v", "a", "l", "i", "d", "\"", ":", " ", "F", "a", "l", "s", "e", ",",
          " ", "\"", "e", "r", "r", "o", "r", "\"", ":", " ", "s", "t", "r", "(",
          "e", ")", "}", ")", ")", "\n" >>

\* The script of handleAnalyzeLogPatterns for its arguments.
PatternsCode(args) ==
  << "\n", "i", "m", "p", "o", "r", "t", " ", "j", "s", "o", "n", "\n", "i",
     "m", "p", "o", "r", "t", " ", "r", "e", "\n", "\n", "m", "a", "t", "c",
     "h", "e", "s", " ", "=", " ", "[", "]", "\n", "w", "i", "t", "h", " ",
     "o", "p", "e", "n", "(", "\"" >>
    \o ToText(args.log_file_path)
    \o << "\"", ",", " ", "'", "r", "'", ")", " ", "a", "s", " ", "f", ":", "\n",
          " ", " ", " ", " ", "f", "o", "r", " ", "i", ",", " ", "l", "i", "n",
          "e", " ", "i", "n", " ", "e", "n", "u", "m", "e", "r", "a", "t", "e",
          "(", "f", ",", " ", "1", ")", ":", "\n", " ", " ", " ", " ", " ", " ",
          " ", " ", "i", "f", " ", "r", "e", ".", "s", "e", "a", "r", "c", "h",
          "(", "r", "\"" >>
    \o ToText(Or(args.pattern, Str(<<"E", "R", "R", "O", "R", "|", "W", "A", "R", "N", "|", "C", "R", "I", "T", "I", "C", "A", "L">>)))
    \o << "\"", ",", " ", "l", "i", "n", "e", ",", " ", "r", "e", ".", "I", "G",
          "N", "O", "R", "E", "C", "A", "S", "E", ")", ":", "\n", " ", " ", " ",
          " ", " ", " ", " ", " ", " ", " ", " ", " ", "m", "a", "t", "c", "h",
          "e", "s", ".", "a", "p", "p", "e", "n", "d", "(", "{", "\"", "l", "i",
          "n", "e", "\"", ":", " ", "i", ",", " ", "\"", "c", "o", "n", "t", "e",
          "n", "t", "\"", ":", " ", "l", "i", "n", "e", ".", "s", "t", "r", "i",
          "p", "(", ")", "[", ":", "1", "0", "0", "]", "}", ")", "\n", "\n", "r",
          "e", "s", "u", "l", "t", " ", "=", " ", "{", "\n", " ", " ", " ", " ",
          "\"", "t", "o", "t", "a", "l", "_", "m", "a", "t", "c", "h", "e", "s",
          "\"", ":", " ", "l", "e", "n", "(", "m", "a", "t", "c", "h", "e", "s",
          ")", ",", "\n", " ", " ", " ", " ", "\"", "p", "a", "t", "t", "e", "r",
          "n", "\"", ":", " ", "\"" >>
    \o ToText(Or(args.pattern, Str(<<"E", "R", "R", "O", "R", "|", "W", "A", "R", "N", "|", "C", "R", "I", "T", "I", "C", "A", "L">>)))
    \o << "\"", ",", "\n", " ", " ", " ", " ", "\"", "m", "a", "t", "c", "h", "e",
          "s", "\"", ":", " ", "m", "a", "t", "c", "h", "e", "s", "[", ":", "1",
          "0", "]", " ", " ", "#", " ", "T", "o", "p", " ", "1", "0", "\n", "}",
          "\n", "p", "r", "i", "n", "t", "(", "j", "s", "o", "n", ".", "d", "u",
          "m", "p", "s", "(", "r", "e", "s", "u", "l", "t", ",", " ", "i", "n",
          "d", "e", "n", "t", "=", "2", ")", ")", "\n" >>

\* executePythonCode(code), up to its await of execute: no timeout is given.
executePythonCode(text) ==
  /\ pc' = "idle"
  /\ request' = [code |-> Code(text, 0), timeout |-> Given(ServerTimeout(Absent))]
  /\ UNCHANGED << srv, reply, concVars, regVars, host, fsVars, spawns, procVars, ioVars, timerVars,
                  clockVars, procResult, result >>

handleAnalyzeNginxLogs ==
  /\ pc = "call" /\ srv.via = "templated" /\ srv.tool = "analyze_nginx_logs"
  /\ executePythonCode(NginxCode(srv.args))

handleAnalyzeDockerLogs ==
  /\ pc = "call" /\ srv.via = "templated" /\ srv.tool = "analyze_docker_logs"
  /\ executePythonCode(DockerCode(srv.args))

handleValidateK8sYaml ==
  /\ pc = "call" /\ srv.via = "templated" /\ srv.tool = "validate_kubernetes_yaml"
  /\ executePythonCode(K8sCode(srv.args))

handleSystemHealth ==
  /\ pc = "call" /\ srv.via = "templated" /\ srv.tool = "check_system_health"
  /\ executePythonCode(HealthCode(srv.args))

handleValidateConfig ==
  /\ pc = "call" /\ srv.via = "templated" /\ srv.tool = "validate_config_file"
  /\ executePythonCode(ConfigCode(srv.args))

handleAnalyzeLogPatterns ==
  /\ pc = "call" /\ srv.via = "templated" /\ srv.tool = "analyze_log_patterns"
  /\ executePythonCode(PatternsCode(srv.args))

\* Arguments of the calls: absent, plain, and holding an entry of the denylist.
ArgPaths == { Undefined, Str(<<"a", ".", "l", "o", "g">>), Str(<<"/", "s", "u", "/", "a", ".", "l", "o", "g">>) }
TemplatedCalls ==
  { [via |-> "templated", tool |-> "analyze_nginx_logs", args |-> [log_file_path |-> p, analysis_type |-> t]] :
      p \in ArgPaths, t \in {Undefined, Str(<< >>), Str(<<"e", "r", "r", "o", "r", "s">>)} }
  \cup { [via |-> "templated", tool |-> "analyze_docker_logs", args |-> [container_name_or_id |-> p]] :
      p \in {Undefined, Str(<<"w", "e", "b">>), Str(<<"s", "u", "d", "o">>)} }
  \cup { [via |-> "templated", tool |-> "validate_kubernetes_yaml", args |-> [yaml_file_path |-> p, check_best_practices |-> b]] :
      p \in ArgPaths, b \in {Undefined, Bool(<<"f", "a", "l", "s", "e">>), Bool(<<"t", "r", "u", "e">>)} }
  \cup { [via |-> "templated", tool |-> "check_system_health", args |-> [threshold_disk_percent |-> n]] :
      n \in {Undefined, Num(<<"0">>), Num(<<"9", "0">>)} }
  \cup { [via |-> "templated", tool |-> "validate_config_file", args |-> [file_path |-> p, file_type |-> t]] :
      p \in ArgPaths, t \in {Undefined, Str(<<"j", "s", "o", "n">>)} }
  \cup { [via |-> "templated", tool |-> "analyze_log_patterns", args |-> [log_file_path |-> p, pattern |-> t]] :
      p \in ArgPaths, t \in {Undefined, Str(<<"F", "A", "T", "A", "L">>)} }

\* A call of a templated tool, followed up to the spawn and the reply.
TmplInit ==
  /\ srv \in TemplatedCalls
  /\ pc = "call"
  /\ request = NoRequest
  /\ tools = TOOL_DEFINITIONS
  /\ Fresh

TmplNext ==
  \/ handleAnalyzeNginxLogs
  \/ handleAnalyzeDockerLogs
  \/ handleValidateK8sYaml
  \/ handleSystemHealth
  \/ handleValidateConfig
  \/ handleAnalyzeLogPatterns
  \/ Execute
  \/ Mkdtemp
  \/ WriteFileFails
  \/ ExecuteProcess
  \/ ServerReply

TmplSpec == TmplInit /\ [][TmplNext]_vars

\* ------------------------------------------------- signals to the server process
\* The handlers of setupErrorHandling are the only listeners for SIGINT and
\* SIGTERM: await this.server.close(), then process.exit(0).
HostRuns == host # "exited"

\* Where execute is between its validation and its return.
InFlightAt == {"mkdtemp", "writeFile", "awaiting", "rm"}

\* SIGINT or SIGTERM arrives with an invocation in flight: the handler starts
\* and awaits server.close().  The event loop goes on in the meantime.
HostSignal ==
  /\ host = "up"
  /\ pc \in InFlightAt
  /\ host' = "closing"
  /\ UNCHANGED << execVars, concVars, regVars >>

\* server.close() has settled: process.exit(0).  No callback of this
\* process runs after it; the handler has not touched the executor, the
\* child or the directory.
HostExit ==
  /\ host = "closing"
  /\ host' = "exited"
  /\ UNCHANGED << execVars, concVars, regVars >>

\* One execute_code call on either server, with signals to the server.
HostCalls ==
  { [via |-> v, code |-> Code(<<"p">>, 0), language |-> Language("python"),
     timeout |-> Given(200)] : v \in {"basic", "intelligent"} }

HostInit ==
  /\ srv \in HostCalls
  /\ pc = "call"
  /\ request = NoRequest
  /\ tools = TOOL_DEFINITIONS
  /\ Fresh

\* The program's steps, its timers and its pipes while the process lives; a
\* child that is left can still end on its own.
HostNext ==
  \/ HostSignal
  \/ HostExit
  \/ HostRuns /\ BasicHandleExecuteCode
  \/ HostRuns /\ IntelligentHandleExecuteCode
  \/ HostRuns /\ Execute
  \/ HostRuns /\ Mkdtemp
  \/ HostRuns /\ WriteFileFails
  \/ HostRuns /\ ExecuteProcess
  \/ HostRuns /\ Rm
  \/ HostRuns /\ StdoutData
  \/ HostRuns /\ StderrData
  \/ HostRuns /\ SpawnTimeout
  \/ HostRuns /\ Timer
  \/ HostRuns /\ GraceTimer
  \/ HostRuns /\ OnExit
  \/ HostRuns /\ OnClose
  \/ HostRuns /\ SpawnError
  \/ HostRuns /\ ServerReply
  \/ HostRuns /\ AdvanceTime
  \/ HostRuns /\ ProcWriteStdout
  \/ HostRuns /\ ProcWriteStderr
  \/ ProcExit
  \/ ProcSignalDeath

HostSpec == HostInit /\ [][HostNext]_vars

\* --------------------------------------------------- invocations side by side
InFlight(i) == execs[i].pc \notin {"idle", "done"}

\* The invocations in flight, other than i, whose tmpDir is d.
SharedWith(i, d) ==
  { j \in Invocations \ {i} : InFlight(j) /\ execs[j].tmpDir = d }

Hits(i, op, d) == { [by |-> i, op |-> op, dir |-> d, of |-> j] : j \in SharedWith(i, d) }

\* A mkdtemp that may return a name that is already there.
MkdtempNames_AnyName(existing) == Names

\* fs.mkdtemp creates a directory that did not exist, under a new name.
MkdtempNames(existing) == Names \ existing

\* execute is called and passes validateCode; mkdtemp is started.
ConcExecute(i) ==
  /\ pc = "concurrent"
  /\ execs[i].pc = "idle"
  /\ execs' = [execs EXCEPT ![i] = [pc |-> "mkdtemp", tmpDir |-> NoDir]]
  /\ UNCHANGED << tmpdir, trespass, execVars, regVars, host >>

\* fs.mkdtemp settles: tmpDir is the new directory, or the catch block returns.
ConcMkdtemp(i) ==
  /\ pc = "concurrent"
  /\ execs[i].pc = "mkdtemp"
  /\ \/ \E n \in MkdtempNames(tmpdir) :
          /\ tmpdir' = tmpdir \cup {n}
          /\ execs' = [execs EXCEPT ![i] = [pc |-> "writeFile", tmpDir |-> n]]
     \/ /\ execs' = [execs EXCEPT ![i].pc = "done"]
        /\ UNCHANGED tmpdir
  /\ UNCHANGED << trespass, execVars, regVars, host >>

\* fs.writeFile(path.join(tmpDir, 'script.py')) settles: the child is started
\* with cwd tmpDir, or the catch block returns and the directory stays.
ConcWriteFile(i) ==
  /\ pc = "concurrent"
  /\ execs[i].pc = "writeFile"
  /\ \/ /\ execs' = [execs EXCEPT ![i].pc = "awaiting"]
        /\ trespass' = trespass \cup Hits(i, "writeFile", execs[i].tmpDir)
     \/ /\ execs' = [execs EXCEPT ![i].pc = "done"]
        /\ UNCHANGED trespass
  /\ UNCHANGED << tmpdir, execVars, regVars, host >>

\* executeProcess settles and fs.rm(tmpDir) is started.
ConcExecuteProcess(i) ==
  /\ pc = "concurrent"
  /\ execs[i].pc = "awaiting"
  /\ execs' = [execs EXCEPT ![i].pc = "rm"]
  /\ UNCHANGED << tmpdir, trespass, execVars, regVars, host >>

\* fs.rm(tmpDir, { recursive, force }) settles: the directory is gone, or the
\* catch block returns and it stays.
ConcRm(i) ==
  /\ pc = "concurrent"
  /\ execs[i].pc = "rm"
  /\ execs' = [execs EXCEPT ![i].pc = "done"]
  /\ \/ /\ tmpdir' = tmpdir \ {execs[i].tmpDir}
        /\ trespass' = trespass \cup Hits(i, "rm", execs[i].tmpDir)
     \/ UNCHANGED << tmpdir, trespass >>
  /\ UNCHANGED << execVars, regVars, host >>

\* The caller has the result; execute can be called again.
ConcReturn(i) ==
  /\ pc = "concurrent"
  /\ execs[i].pc = "done"
  /\ execs' = [execs EXCEPT ![i] = NoExec]
  /\ UNCHANGED << tmpdir, trespass, execVars, regVars, host >>

ConcInit ==
  /\ pc = "concurrent"
  /\ request = NoRequest
  /\ srv = DirectCall
  /\ tools = NoTools
  /\ Fresh

ConcNext ==
  \/ \E i \in Invocations : ConcExecute(i)
  \/ \E i \in Invocations : ConcMkdtemp(i)
  \/ \E i \in Invocations : ConcWriteFile(i)
  \/ \E i \in Invocations : ConcExecuteProcess(i)
  \/ \E i \in Invocations : ConcRm(i)
  \/ \E i \in Invocations : ConcReturn(i)

ConcSpec == ConcInit /\ [][ConcNext]_vars

\* ------------------------------------------- requests to the intelligent server
ToolRoutes ==
  { "analyze_nginx_logs", "analyze_docker_logs", "validate_kubernetes_yaml",
    "check_system_health", "execute_code", "validate_config_file", "analyze_log_patterns" }

\* The user asks the client something; nothing of it reaches the server.
UserAsks ==
  /\ pc = "serving"
  /\ \E q \in Queries : userQuery' = Query(q)
  /\ UNCHANGED << tools, lastUserQuery, listed, served, execVars, concVars, host >>

\* The list-tools handler: discoverTools(this.lastUserQuery).
ListTools ==
  /\ pc = "serving"
  /\ Len(served) < MaxRequests
  /\ listed' = Listed(discoverTools(tools, lastUserQuery), userQuery)
  /\ served' = Append(served, "tools/list")
  /\ UNCHANGED << tools, lastUserQuery, userQuery, execVars, concVars, host >>

\* The call-tool handler routes the call by name; the query of the user is
\* not among its inputs and lastUserQuery is not assigned.
CallTool ==
  /\ pc = "serving"
  /\ Len(served) < MaxRequests
  /\ \E name \in ToolRoutes : served' = Append(served, name)
  /\ UNCHANGED << tools, lastUserQuery, userQuery, listed, execVars, concVars, host >>

\* The intelligent server once constructed: the tools of TOOL_DEFINITIONS
\* registered, lastUserQuery = ''.
ListInit ==
  /\ pc = "serving"
  /\ request = NoRequest
  /\ srv = DirectCall
  /\ tools = TOOL_DEFINITIONS
  /\ Fresh

ListNext ==
  \/ UserAsks
  \/ ListTools
  \/ CallTool

ListSpec == ListInit /\ [][ListNext]_vars

\* ------------------------------------------------------ the registry by itself
\* What is registered: four of the tools of tools-definitions.ts, and
\* analyze_log_patterns once more with another priority.
Demoted(m) == [name |-> m.name, priority |-> 0, keywords |-> m.keywords]
Registrations ==
  { TOOL_DEFINITIONS[1], TOOL_DEFINITIONS[4], TOOL_DEFINITIONS[5], TOOL_DEFINITIONS[7],
    Demoted(TOOL_DEFINITIONS[7]) }

Contexts ==
  { <<>>,
    <<" ">>,
    <<"n", "g", "i", "n", "x">>,
    <<"N", "G", "I", "N", "X", " ", "l", "o", "g">>,
    <<"s", "y", "s", "l", "o", "g">>,
    <<"R", "u", "n", " ", "H", "e", "a", "l", "t", "h", " ", "C", "h", "e", "c", "k">>,
    <<"z", "z", "z">> }

\* register(metadata) is called.  The answer of an earlier discoverTools
\* call says nothing about the registry as it is now.
CallRegister ==
  /\ pc = "registry"
  /\ Len(served) < MaxRegisters
  /\ \E m \in Registrations :
       /\ tools' = register(tools, m)
       /\ served' = Append(served, m.name)
  /\ listed' = NotListed
  /\ UNCHANGED << lastUserQuery, userQuery, execVars, concVars, host >>

\* discoverTools(context) is called.
CallDiscoverTools ==
  /\ pc = "registry"
  /\ \E c \in Contexts : listed' = Listed(discoverTools(tools, c), Query(c))
  /\ UNCHANGED << tools, lastUserQuery, userQuery, served, execVars, concVars, host >>

\* new IntelligentToolRegistry()
RegInit ==
  /\ pc = "registry"
  /\ request = NoRequest
  /\ srv = DirectCall
  /\ tools = NoTools
  /\ Fresh

RegNext ==
  \/ CallRegister
  \/ CallDiscoverTools

RegSpec == RegInit /\ [][RegNext]_vars

\* Every event-loop callback, settling file operation, passing of time and
\* step of the child that can happen does happen.
FairSpec == Spec /\ WF_vars(Next)

\* ==================================================================== claims
Done == pc = "done"
Returned == Done /\ result.kind = "return"

\* C1: after execute returns, with any outcome, the temporary directory it
\* created no longer exists.
C1_DirGoneOnReturn == Done => ~dirExists

\* C2: execute never raises to its caller: every invocation that finishes
\* does so by returning an ExecutionResult, for every failure mode.
C2_NeverRaises == Done => result.kind = "return"

\* A failure of each kind has been turned into a returned result.
C2_Witness ==
  /\ Returned
  /\ result.error \in {RmErr, WriteFileErr, SpawnRangeErr, KillErr}

\* C3: when the effective timeout elapses before the child exits on its own,
\* the returned result has success=false, exitCode=-1 and
\* error='Execution timeout or output limit exceeded'.  (Stated for a child
\* that never exits on its own, in the runs in which every kill was
\* delivered and the directory was removed.)
C3_TimeoutIsForced ==
  (Returned /\ timedOut /\ script.ending = "never" /\ ~dirExists
     /\ procResult.error # KillErr)
    => (/\ result.success = FALSE
        /\ result.exitCode = -1
        /\ result.error = LimitMsg)

\* C4: for a child that never exits on its own, execute eventually returns
\* once the timeout has elapsed, also when the child ignores SIGTERM: no
\* state is left in which the call has not returned and nothing more can
\* happen.
C4_EventuallyReturns ==
  (spawns > 0 /\ script.ending = "never") => (Done \/ ENABLED Next)

\* C5: when the stdout or stderr accumulator exceeds 1,000,000 the returned
\* result has success=false, exitCode=-1 and
\* error='Execution timeout or output limit exceeded', whatever status the
\* child then exits with.  (Stated for the runs in which every kill was
\* delivered.)
C5_OverLimitIsForced ==
  (Returned /\ (OverLimit(stdout) \/ OverLimit(stderr))
     /\ procResult.error # KillErr)
    => (/\ result.success = FALSE
        /\ result.exitCode = -1
        /\ result.error = LimitMsg)

\* C6: in every reachable state the stdout accumulator and the stderr
\* accumulator each hold at most 1,000,000 units.
C6_AccumulatorsBounded ==
  StrLen(stdout) <= OutputLimit /\ StrLen(stderr) <= OutputLimit

\* C7: for code rejected by validation (over 100,000 characters, or holding a
\* denylist entry) execute returns success=false, exitCode=-1 and the
\* rejection reason as error, no temporary directory is ever created and no
\* child is ever spawned; and no child is spawned for code that validation
\* rejects.
Denylisted(code) == { b \in { blockedCommands[i] : i \in 1..Len(blockedCommands) } :
                        Includes(code, b) }
TooLong(code) == CodeLength(code) > MaxCodeLength
Rejected(code) == TooLong(code) \/ Denylisted(code) # {}
Reasons(code) ==
  { SecurityMsg(b) : b \in Denylisted(code) }
    \cup (IF TooLong(code) THEN {TooLargeMsg} ELSE {})

C7_RejectedNeverRuns ==
  /\ Rejected(request.code) =>
       /\ dirsMade = 0 /\ ~dirExists
       /\ spawns = 0 /\ procState = "none"
       /\ pc \in {"idle", "done"}
       /\ Done => /\ result.kind = "return"
                  /\ result.success = FALSE
                  /\ result.exitCode = -1
                  /\ result.error \in Reasons(request.code)
  /\ (spawns > 0 \/ dirsMade > 0 \/ procState # "none") => ~Rejected(request.code)

\* An oversize request has been rejected and has returned.
C7_Witness ==
  /\ Returned
  /\ TooLong(request.code) /\ Denylisted(request.code) = {}
  /\ result.error = TooLargeMsg

\* C8: every returned result satisfies success = true => exitCode = 0 and
\* error absent.
C8_SuccessMeansZero ==
  Returned => (result.success => (result.exitCode = 0 /\ result.error = NoError))

C8_Witness == Returned /\ result.success

\* No forcing condition occurred: no accumulator outgrew the limit and no
\* timer ran.
NoForcing ==
  /\ ~killed /\ ~procKilled /\ signalled = "none"
  /\ spawnTimer # "fired" /\ timer # "fired" /\ ~timedOut

Decode(chunks) == [i \in 1..Len(chunks) |-> DataToString(chunks[i])]

\* C9: when the child exits on its own with status 0 and no forcing condition
\* occurred, the result has success=true, exitCode=0, error absent and stdout
\* the concatenation, in arrival order, of all stdout chunks the child wrote.
C9_CleanExit ==
  (Returned /\ spawns > 0 /\ NoForcing /\ ~exitStatus.null /\ exitStatus.code = 0)
    => (/\ result.success = TRUE
        /\ result.exitCode = 0
        /\ result.error = NoError
        /\ result.stdout = Decode(wroteOut))

\* C10: when the child exits on its own with a non-zero status n and was not
\* forcibly terminated, the result has success=false, exitCode=n and error
\* absent.
C10_NonZeroExit ==
  (Returned /\ spawns > 0 /\ NoForcing /\ ~exitStatus.null /\ exitStatus.code # 0)
    => (/\ result.success = FALSE
        /\ result.exitCode = exitStatus.code
        /\ result.error = NoError)

\* C11: when the interpreter cannot be launched (spawn emits 'error') the
\* result has success=false, exitCode=-1 and error = the operating system's
\* message, and the temporary directory is removed before execute returns.
C11_SpawnErrorReported ==
  (Returned /\ procResult.error = SpawnAsyncErr)
    => (/\ result.success = FALSE
        /\ result.exitCode = -1
        /\ result.error = SpawnAsyncErr
        /\ ~dirExists)

\* C12: exitCode is -1 in every result for which the child produced no real
\* exit code, among them a child ended by a signal, whose close event carries
\* a null code.  (Stated for that case, in the runs in which the close
\* handler decided the result and the directory was removed.)
C12_NoCodeMeansMinusOne ==
  (Returned /\ spawns > 0 /\ procState = "closed" /\ exitStatus.null /\ ~dirExists
     /\ procResult.error # KillErr)
    => result.exitCode = -1

\* C13: the effective timeout armed by execute equals min(request.timeout,
\* 30000) for every positive request.timeout and 30000 when it is absent; it
\* never exceeds 30000.
C13_TimeoutClamped ==
  (timer = "armed" \/ spawnTimer = "armed") =>
    /\ timeout <= maxTimeout
    /\ (request.timeout.has /\ request.timeout.ms > 0) =>
         timeout = (IF request.timeout.ms < maxTimeout THEN request.timeout.ms
                                                        ELSE maxTimeout)
    /\ ~request.timeout.has => timeout = maxTimeout

\* Both timers are armed for a request that asked for more than the maximum.
C13_Witness ==
  /\ timer = "armed" /\ spawnTimer = "armed"
  /\ request.timeout.has /\ request.timeout.ms > maxTimeout

\* C18: for code of at most 100,000 characters validateCode rejects with a
\* security violation if and only if the code holds, as a case-sensitive
\* contiguous substring at any position, at least one denylist entry (the
\* entry it names is one the code holds); code holding none is accepted.
Occurs(b, text) ==
  \E k \in 0..Len(text) :
     \A m \in 1..Len(b) : k + m <= Len(text) /\ text[k + m] = b[m]
Entries == { blockedCommands[i] : i \in 1..Len(blockedCommands) }
Held(code) == { b \in Entries : Occurs(b, code.text) }
SecurityRejected == Done /\ result.error.text = SecurityMsg(<<>>).text
Accepted ==
  /\ pc # "idle"
  /\ ~(Done /\ result.error.text
                 \in {SecurityMsg(<<>>).text, TooLargeMsg.text, IncludesTypeErr.text})

C18_DenylistIsSubstring ==
  (pc # "idle" /\ request.code.kind = "string"
     /\ CodeLength(request.code) <= MaxCodeLength)
    => /\ SecurityRejected <=> Held(request.code) # {}
       /\ SecurityRejected => result.error.arg \in Held(request.code)
       /\ Held(request.code) = {} => Accepted

\* A code was rejected for an entry that is not at its start.
C18_Witness ==
  /\ SecurityRejected
  /\ CodeLength(request.code) <= MaxCodeLength
  /\ request.code.text[1] = "S"
  /\ result.error.arg = <<"s","u">>

\* C17: every result returned by execute has success, stdout, stderr,
\* exitCode and executionTime all populated, on every path.
C17_ResultComplete ==
  Returned =>
    /\ {"success", "stdout", "stderr", "exitCode", "executionTime"} \subseteq DOMAIN result
    /\ result.success \in BOOLEAN
    /\ result.exitCode \in Int
    /\ result.executionTime \in Nat

\* A forced termination has been returned.
C17_Witness == Returned /\ result.error = LimitMsg /\ killed

\* The timeout the caller asked for.
Asked == IF srv.via = "direct" THEN request.timeout ELSE srv.timeout

\* C14: a requested timeout that is zero or negative is replaced by the
\* default of 30000 ms, for direct calls and for execute_code on either
\* server: once execute has begun, the timeout it uses is 30000 and spawn is
\* never refused for its timeout option.
C14_NonPositiveReplaced ==
  (Asked.has /\ Asked.ms <= 0 /\ pc \notin {"call", "idle"})
    => (timeout = maxTimeout /\ result.error # SpawnRangeErr)

\* C19: an execute_code call whose language argument is given and is not
\* 'python' never reaches execute and is answered with an error payload.
C19_OtherLanguageRejected ==
  (srv.via # "direct" /\ srv.language.has /\ srv.language.name # "python")
    => /\ pc \in {"call", "replied"}
       /\ pc = "replied" => reply.isError

\* C20: an execute_code call whose code argument is missing, not a string or
\* empty makes no directory, spawns nothing and is answered with an error
\* payload.
C20_BadCodeRejected ==
  (srv.via # "direct" /\ (srv.code.kind # "string" \/ CodeLength(srv.code) = 0))
    => /\ dirsMade = 0 /\ spawns = 0
       /\ pc = "replied" => reply.isError

\* The child ended on its own with status 0, before the deadline and under
\* the output limit, no signal ever reached it, no system call failed and the
\* directory was removed.
QuietCleanRun ==
  /\ Returned /\ spawns > 0 /\ ~dirExists /\ procResult.error # KillErr
  /\ procState = "closed" /\ ~exitStatus.null /\ exitStatus.code = 0
  /\ signalled = "none" /\ ~timedOut
  /\ ~OverLimit(stdout) /\ ~OverLimit(stderr)

\* One invocation with such a child returns success with exit code 0.
C16_Reference == QuietCleanRun /\ result.success /\ result.exitCode = 0

\* C16: invocations with the same request and the same behaviour of the
\* child return equal success, exitCode, stdout and stderr.  For a child that
\* ends on its own with status 0 one invocation returns success with exit
\* code 0 and the child's output, so every such invocation does.
C16_SameRunSameResult ==
  QuietCleanRun
    => /\ result.success = TRUE
       /\ result.exitCode = 0
       /\ result.stdout = Decode(wroteOut)
       /\ result.stderr = [data |-> Decode(wroteErr), tail |-> NoError]

\* C15: two invocations of execute in flight at the same time have distinct
\* temporary directories, and no invocation writes into or removes the
\* directory of another.
C15_DistinctDirectories ==
  /\ \A i, j \in Invocations :
       (i # j /\ InFlight(i) /\ InFlight(j) /\ execs[i].tmpDir # NoDir)
         => execs[i].tmpDir # execs[j].tmpDir
  /\ trespass = {}

\* Two invocations are in flight with their scripts written, next to a
\* directory an earlier invocation left behind.
C15_Witness ==
  /\ \A i \in {1, 2} : execs[i].pc \in {"awaiting", "rm"}
  /\ \E n \in tmpdir : \A i \in Invocations : execs[i].tmpDir # n

\* No timer of the invocation is waiting to fire.
NoTimerArmed == spawnTimer # "armed" /\ timer # "armed" /\ graceTimer # "armed"

\* C22: after the timeout has brought a SIGTERM to the child, a child still
\* running when the grace window of 1000 ms is over is sent SIGKILL: once the
\* timers have all run, a child that outlived the timeout and its SIGTERM has
\* had a SIGKILL.
C22_KillAfterGrace ==
  (timedOut /\ procState = "running" /\ signalled # "none" /\ NoTimerArmed)
    => signalled = "SIGKILL"

\* C23: every proc.kill('SIGKILL') of an invocation comes at least 1000 ms
\* after a SIGTERM of the same invocation; SIGKILL is never the first signal.
C23_TermBeforeKill ==
  \A k \in kills :
    k.sig = "SIGKILL" =>
      \E t \in kills : t.sig = "SIGTERM" /\ t.at + GraceMs <= k.at

\* The nested timer has called proc.kill('SIGKILL').
C23_Witness == \E k \in kills : k.sig = "SIGKILL"

\* fs.rm has been started, or has settled.
CleanupStarted == pc = "rm" \/ (Done /\ procResult # NoResult)

\* C24: once 'close' or 'error' has been observed and the removal of the
\* directory has started, no timer of the invocation is left armed to fire
\* or to send a signal.  (Stated for a child that was started and whose
\* 'close' was observed, in the runs in which no kill failed.)
C24_NoTimerAfterCleanup ==
  (CleanupStarted /\ spawns > 0 /\ procState = "closed" /\ procResult.error # KillErr)
    => NoTimerArmed

\* C25: when the child exits on its own before the timeout and before any
\* accumulator has crossed the bound, the result carries the exit status and
\* is not a forced termination, also when output written before the exit is
\* delivered after it and crosses the bound.  (Stated for the runs in which
\* the timer did not fire, no kill failed and the directory was removed.)
C25_FirstEventDecides ==
  (/\ Returned /\ spawns > 0 /\ ~dirExists /\ procResult.error # KillErr
   /\ procState = "closed" /\ ~exitStatus.null
   /\ signalled = "none" /\ ~timedOut /\ timer # "fired" /\ spawnTimer # "fired")
    => /\ result.exitCode = exitStatus.code
       /\ result.error # LimitMsg

\* C26: when fs.rm rejects, execute returns the outcome executeProcess
\* settled with: the same success, exitCode, stdout, stderr and error.
C26_RmFailureSwallowed ==
  (Returned /\ procResult # NoResult)
    => /\ result.success = procResult.success
       /\ result.exitCode = procResult.exitCode
       /\ result.stdout = procResult.stdout
       /\ result.stderr = procResult.stderr
       /\ result.error = procResult.error

\* C27: when fs.writeFile fails after the directory was made, execute starts
\* the removal of the directory before it returns the failure.
C27_CleanupAfterWriteFailure ==
  (Done /\ result.error = WriteFileErr) => CleanupStarted

\* C29: the result is settled once: after the first 'close' or 'error' has
\* resolved the promise no later event changes it, and nothing changes what
\* execute has returned.
C29_SettledOnce ==
  [][/\ procResult # NoResult => procResult' = procResult
     /\ Done => result' = result]_vars

\* 'error' (a failed kill) settled the result and 'close' came after it.
C29_Witness ==
  /\ procResult.error = KillErr /\ procState = "closed"
  /\ Returned /\ ~dirExists /\ result.error = KillErr

\* C30: after an accumulator crossed the bound and proc.kill was called,
\* execute eventually returns, also when the child ignores that signal and
\* runs past the timeout: no state is left in which the call has not
\* returned and nothing more can happen.
C30_OverLimitEventuallyReturns ==
  (/\ OverLimit(stdout) \/ OverLimit(stderr)
   /\ killed /\ procKilled
   /\ \E k \in kills : k.at < timeout)
    => (Done \/ ENABLED Next)

\* C28: code longer than 100,000 characters is rejected with the size error,
\* also when it holds a denylist entry: it is reported as too large, not as
\* a security violation.
C28_SizeBeforeDenylist ==
  (pc # "idle" /\ request.code.kind = "string" /\ CodeLength(request.code) > MaxCodeLength)
    => (Done /\ result.error = TooLargeMsg)

\* The registered tools with a keyword the text holds.
Relevant(text) ==
  { tools[i].name : i \in { j \in 1..Len(tools) : Matching(tools[j], text) # {} } }

\* The tools of the last list-tools answer.
ListedTools == { listed.tools[i] : i \in 1..Len(listed.tools) }

\* C21: list-tools returns only the tools relevant to the user's last query:
\* an answer given after the user asked something that matches a keyword
\* lists no tool none of whose keywords match it.
C21_OnlyRelevantListed ==
  (listed.answered /\ listed.after.asked /\ Relevant(listed.after.text) # {})
    => ListedTools \subseteq Relevant(listed.after.text)

\* C31: the temporary directory is never removed while the child of the
\* invocation is still running, also after an 'error' event for a child
\* that was started (a failed kill).
C31_NoRemovalWhileRunning ==
  (spawns > 0 /\ procState = "running") => dirExists

\* The answer of the last discoverTools call and the context it was given.
Answer == listed.tools
Context == listed.after.text
AnswerSet == { Answer[i] : i \in 1..Len(Answer) }
Registered(name) == tools[CHOOSE i \in 1..Len(tools) : tools[i].name = name]
RegisteredNames == { tools[i].name : i \in 1..Len(tools) }

\* The keywords of a tool that are, case aside, substrings of the context.
KeywordsIn(m, context) ==
  { k \in 1..Len(m.keywords) : Occurs(ToLowerCase(m.keywords[k]), ToLowerCase(context)) }
MatchingNames(context) ==
  { tools[i].name : i \in { j \in 1..Len(tools) : KeywordsIn(tools[j], context) # {} } }
ClaimedScore(name, context) ==
  Registered(name).priority * Cardinality(KeywordsIn(Registered(name), context))

\* The tools with a matching keyword, each once, highest score first.
ExactlyTheMatching ==
  /\ AnswerSet = MatchingNames(Context)
  /\ Len(Answer) = Cardinality(AnswerSet)
  /\ \A a, b \in 1..Len(Answer) :
       a < b => ClaimedScore(Answer[a], Context) >= ClaimedScore(Answer[b], Context)

C35_BlankReturnsAll ==
  /\ \A i, j \in 1..Len(tools) : tools[i].name = tools[j].name => i = j
  /\ (listed.answered /\ Blank(Context))
       => /\ AnswerSet = RegisteredNames
          /\ Len(Answer) = Len(tools)
          /\ \A a, b \in 1..Len(Answer) :
               a < b => Registered(Answer[a]).priority >= Registered(Answer[b]).priority

\* A name was registered twice and a whitespace-only context was answered.
C35_Witness ==
  /\ listed.answered /\ Context = <<" ">> /\ Len(Answer) >= 2
  /\ \E i, j \in 1..Len(served) : i < j /\ served[i] = served[j]

C37_ExecuteCodeOnlyAlone ==
  (listed.answered /\ ~Blank(Context) /\ "execute_code" \in AnswerSet)
    => MatchingNames(Context) \subseteq {"execute_code"}

\* The values a templated call puts into its script.
Interpolated ==
  { ToText(srv.args[f]) : f \in DOMAIN srv.args }
CleanArguments == \A v \in Interpolated : \A b \in Entries : ~Occurs(b, v)

\* C32: for every templated handler, when the argument values hold no
\* denylisted substring, the generated script passes validateCode and the
\* invocation goes on to its subprocess.
C32_TemplatedScriptsPass ==
  (srv.via = "templated" /\ CleanArguments /\ pc \notin {"call", "idle"})
    => Accepted

\* The signal came with an invocation in flight, and the server process
\* exited before execute returned.
ExitedInFlight == host = "exited" /\ pc \in InFlightAt

\* C33: when the server process gets SIGINT or SIGTERM with an execute
\* invocation in flight, the subprocess of the invocation is terminated and
\* its temporary directory removed before the process exits.
C33_ShutdownCleansUp ==
  ExitedInFlight => (procState # "running" /\ ~dirExists)

====
